---- MODULE Spec2Model ----
(***************************************************************************)
(* Model of the mobile vehicle detector of vegha, and of the challans page  *)
(* and the Add Event form of its web dashboard (last part of the model).   *)
(*                                                                         *)
(* Two components share one pipeline:                                      *)
(*   "picker"  src/app/src/components/VehicleDetector.tsx (gallery picker) *)
(*   "camera"  src/unnamed/part_000                       (camera shutter) *)
(* The variable `variant` says which of the two is mounted.                *)
(*                                                                         *)
(* One action is one JavaScript task: the synchronous part of a handler or *)
(* the continuation that runs when an awaited external call settles.  React*)
(* is modelled as committing the re-render of a task's state updates       *)
(* before the next task runs, so a handler started by a press closes over  *)
(* the state current at the press.  External libraries (the model loader,  *)
(* the picker, the camera, the image manipulator, the file system, the     *)
(* JPEG decoder and the detector) are nondeterministic: each call settles  *)
(* with any outcome the library can produce.                               *)
(*                                                                         *)
(* The timestamp prefix addLog puts before a message is left out of the    *)
(* log lines; a line keeps the message template (kind), its interpolated   *)
(* values (arg, pct) and, as history, the run that logged it and the slot  *)
(* a detection line reports.                                               *)
(***************************************************************************)
EXTENDS Integers, Sequences, FiniteSets, TLC

\* ---------------------------------------------------------------- bounds
\* User and asset events explored per behaviour: handler invocations
\* (presses) plus model-URI deliveries (loads).
MaxEvents == 3

\* ------------------------------------------------------- program constants
\* for (let i = 0; i < 25; i++)
NumSlots == 25
\* if (score > 0.4), scores counted in thousandths
Threshold == 400
\* resize: { width: 320, height: 320 }
InputSide == 320

Variants == {"picker", "camera"}
NoModel == 0
NoUri == "null"
NoImage == "null"
Uris == {"modelA", "modelB"}
Images == {"img1"}
LoadIds == 1..MaxEvents
RunIds == 1..MaxEvents

VARIABLES
    variant,     \* which component is mounted
    camera,      \* camera variant: hasPermission and device != null
    modelUri,    \* useState<string | null>
    model,       \* useState<TensorflowModel | null>: NoModel or the load that made it
    modelState,  \* 'loading' | 'loaded' | 'error'
    logs,        \* useState<string[]>, newest first
    imageUri,    \* useState<string | null>
    processing,  \* useState(false)
    loads,       \* the loadTensorflowModel calls: uri and promise status
    runs,        \* the handler invocations that passed the guards
    presses,     \* handler invocations so far
    calls,       \* history: every model.runSync call issued
    ppInput,     \* post-processing applied on its own: the two tensors
    ppResult,    \*   what it returned
    ppDone,      \*   whether it has been applied
    rdInput,     \* channel reduction applied on its own: rawData.data
    rdResult,    \*   the rgb buffer it filled
    rdDone,      \*   whether it has been applied
    mounted,     \* ChallansPage: "rendered", "mounted" (effect ran), "unmounted"
    windowL,     \*   whether window.L is defined
    attempts,    \*   `let attempts` of the effect
    checkScripts,\*   the interval: "none", "set" or "cleared"
    scriptsLoaded, \* useState(false)
    challans,    \*   useState<Challan[]>: challanId and status of each
    kpis,        \*   useState<KPI[]>: value by KPI id
    selectedChallanId, \* useState<string | null>
    isModalOpen, \*   useState(false)
    viewMode,    \*   useState<ViewMode>('list')
    updates,     \*   handleUpdateChallan calls so far
    formVersion, \* AddEventModal: which of the two versions in the file
    newEvent     \*   the NewEventState the parent holds

detectorVars == <<variant, camera, modelUri, model, modelState, logs, imageUri,
                  processing, loads, runs, presses, calls>>
postVars == <<ppInput, ppResult, ppDone>>
reduceVars == <<rdInput, rdResult, rdDone>>

pollVars == <<mounted, windowL, attempts, checkScripts, scriptsLoaded>>
challanVars == <<challans, kpis, selectedChallanId, isModalOpen, viewMode, updates>>
formVars == <<formVersion, newEvent>>
pageVars == <<pollVars, challanVars, formVars>>

\* what no action of the detector component touches
otherVars == <<postVars, reduceVars, pageVars>>

vars == <<detectorVars, otherVars>>

\* ------------------------------------------------------------------- log
Line(kind, arg, pct, run) ==
    [kind |-> kind, arg |-> arg, pct |-> pct, run |-> run, slot |-> 0]

\* a FOUND line also keeps, as history, the slot it reports
FoundLine(label, pct, run, slot) ==
    [kind |-> "FOUND", arg |-> label, pct |-> pct, run |-> run, slot |-> slot]

\* mutant: the new line is put at the end of the list
AddLogAtTail(l, line) == l \o <<line>>

\* setLogs(prev => [`[time] ${msg}`, ...prev])
AddLog(l, line) == <<line>> \o l

\* mutant: setLogs([msg, ...logs]) with the logs of the render: of several
\* calls in one task the last one wins
AddAllLastWins(l, msgs) ==
    IF msgs = <<>> THEN l ELSE AddLog(l, msgs[Len(msgs)])

\* several addLog calls of one task, msgs in call order
RECURSIVE AddAll(_, _)
AddAll(l, msgs) ==
    IF msgs = <<>> THEN l ELSE AddAll(AddLog(l, Head(msgs)), Tail(msgs))


\* ------------------------------------------------------- detector outputs
\* An output tensor: a typed array, or undefined when the output array has
\* no such element.
Tensor(data) == [defined |-> TRUE, data |-> data]
Missing == [defined |-> FALSE, data |-> <<>>]

\* const COCO_LABELS = { 0: 'person', 1: 'bicycle', 2: 'car', ... }
COCO_LABELS ==
    (0 :> "person") @@ (1 :> "bicycle") @@ (2 :> "car") @@ (3 :> "motorcycle")
    @@ (5 :> "bus") @@ (7 :> "truck") @@ (9 :> "traffic light")

\* mutant: the lookup has no fallback for an index the table lacks
LabelOfTableOnly(classId) ==
    IF classId \in DOMAIN COCO_LABELS THEN COCO_LABELS[classId] ELSE "undefined"

\* COCO_LABELS[classId] || `Class ${classId}`
LabelOf(classId) ==
    IF classId \in DOMAIN COCO_LABELS
    THEN COCO_LABELS[classId]
    ELSE "Class " \o ToString(classId)

\* Number(classes[i]) then the label lookup; classes[i] past the end of the
\* array is undefined, Number(undefined) is NaN, and no label is mapped to NaN
ClassLabel(classes, i) ==
    IF i < Len(classes.data) THEN LabelOf(classes.data[i + 1]) ELSE "Class NaN"

\* mutant: the comparison lets a score equal to the threshold through
ScoreAtLeast(scores, i) ==
    i < Len(scores.data) /\ scores.data[i + 1] >= Threshold

\* Number(scores[i]) > 0.4; scores[i] past the end of the array is undefined,
\* Number(undefined) is NaN and NaN > 0.4 is false
ScoreAbove(scores, i) ==
    i < Len(scores.data) /\ scores.data[i + 1] > Threshold

\* (score * 100).toFixed(0), scores counted in thousandths
PctOf(score) == (score + 5) \div 10

\* the loop bound: i < 25
SlotLimit(scores) == NumSlots

\* The post-processing loop from slot i on; dets are the detections logged
\* so far, in the order of their addLog calls.  Indexing an undefined tensor
\* throws a TypeError, which ends the loop with what was logged before it.
RECURSIVE PostLoop(_, _, _, _)
PostLoop(classes, scores, i, dets) ==
    IF i >= SlotLimit(scores) THEN [threw |-> FALSE, dets |-> dets]
    ELSE IF ~scores.defined THEN [threw |-> TRUE, dets |-> dets]
    ELSE IF ScoreAbove(scores, i)
         THEN IF ~classes.defined THEN [threw |-> TRUE, dets |-> dets]
              ELSE PostLoop(classes, scores, i + 1,
                       Append(dets, [slot  |-> i,
                                     label |-> ClassLabel(classes, i),
                                     score |-> scores.data[i + 1]]))
         ELSE PostLoop(classes, scores, i + 1, dets)

IsFoundLine(l) == l.kind = "FOUND"

\* mutant: the loop index is kept between runs: it starts at the number of
\* detections already on the log
PostProcessFromLogged(classes, scores) ==
    PostLoop(classes, scores, Len(SelectSeq(logs, IsFoundLine)), <<>>)

\* let count = 0; for (...) {...}
PostProcess(classes, scores) == PostLoop(classes, scores, 0, <<>>)

\* Outputs the detector is given in the pipeline: [ok |-> FALSE] is runSync
\* throwing; otherwise n tensors, of which output[1] and output[2] are read.
OutThrow == [ok |-> FALSE, n |-> 0, classes |-> Missing, scores |-> Missing]
Output(n, classes, scores) ==
    [ok |-> TRUE, n |-> n, classes |-> classes, scores |-> scores]

SampleOutputs ==
    { Output(4, Tensor(<<2, 5, 0>>), Tensor(<<820, 300, 910>>)),
      Output(4, Tensor(<<2>>), Tensor(<<400>>)),
      Output(2, Tensor(<<2>>), Missing),
      Output(4, Missing, Tensor(<<910>>)) }

InferOutcomes == {OutThrow} \cup SampleOutputs

\* the detector outcomes explored on a decoded image of another size
OddSizeOutcomes ==
    {OutThrow, Output(4, Tensor(<<2, 5, 0>>), Tensor(<<820, 300, 910>>))}

\* jpeg.decode: throws, or returns rawData whose data has len samples
DecodeThrow == [ok |-> FALSE, len |-> 0]
DecodedLens == {4 * InputSide * InputSide, 6}
DecodeOutcomes == {DecodeThrow} \cup {[ok |-> TRUE, len |-> n] : n \in DecodedLens}

\* the decode of a 320 x 320 image: four samples a pixel
FullDecode == [ok |-> TRUE, len |-> 4 * InputSide * InputSide]

\* mutant: the buffer is made to fit the decoded pixels
RgbLenOfInput(rgbaLen) == 3 * (rgbaLen \div 4)

\* new Uint8Array(320 * 320 * 3): the buffer handed to runSync.  The copy
\* loop writes rgb[p++]; a write past the end of a typed array is dropped, so
\* the buffer keeps the length it was made with.
RgbLen(rgbaLen) == InputSide * InputSide * 3

\* A Uint8Array of len bytes: data holds the bytes up to some index, the bytes
\* from there on are 0 (as in a new array, or as in an image that ends in
\* black transparent pixels).
NewRgb(len) == [len |-> len, data |-> <<>>]

\* rgba[i]: undefined past the end of the array, and undefined stored into a
\* Uint8Array is 0
ByteAt(rgba, i) ==
    IF i < rgba.len /\ i < Len(rgba.data) THEN rgba.data[i + 1] ELSE 0

\* what one iteration writes: rgb[p++] = rgba[i], rgba[i + 1] and rgba[i + 2],
\* for i = 4k
PixelBytes(rgba, k) ==
    <<ByteAt(rgba, 4 * k), ByteAt(rgba, 4 * k + 1), ByteAt(rgba, 4 * k + 2)>>

\* the bytes iterations lo .. hi-1 of the copy loop hand to rgb[p++], in order
\* (the range is halved only to keep the evaluation shallow)
RECURSIVE Copied(_, _, _)
Copied(rgba, lo, hi) ==
    IF hi <= lo THEN <<>>
    ELSE IF hi = lo + 1 THEN PixelBytes(rgba, lo)
    ELSE LET mid == (lo + hi) \div 2 IN
         Copied(rgba, lo, mid) \o Copied(rgba, mid, hi)

\* for (let i = 0; i < rgba.length; i += 4): the number of iterations
Iterations(rgba) == (rgba.len + 3) \div 4

\* the iterations that read a sample held in data; the later ones copy zeros
\* onto the zeros of rgb
DataIterations(rgba) ==
    IF Iterations(rgba) <= (Len(rgba.data) + 3) \div 4
    THEN Iterations(rgba) ELSE (Len(rgba.data) + 3) \div 4

\* const rgb = new Uint8Array(320 * 320 * 3) and the copy loop; p starts at 0,
\* so the writes fill rgb from its start and those past its end are dropped
ChannelReduce(rgba) ==
    LET w == Copied(rgba, 0, DataIterations(rgba))
        n == RgbLen(rgba.len)
    IN [len |-> n, data |-> IF Len(w) <= n THEN w ELSE SubSeq(w, 1, n)]

\* ------------------------------------------------------------------ state
\* decLen, classes and scores are history: the length of rawData.data,
\* output[1] and output[2] of the run, once it has them
IdleRun == [pc |-> "idle", model |-> NoModel, uri |-> NoImage,
            stages |-> <<>>, failed |-> "none", outcome |-> "none",
            decLen |-> 0, classes |-> Missing, scores |-> Missing]

\* ------------------------------------------- web dashboard: initial state
\* const maxAttempts = 50; // 5 seconds max
maxAttempts == 50

\* useState<string | null>(null)
NoChallan == "null"
ViewModes == {"list", "map"}
\* the challans of the fixture, in list order, and the ids a Challan handed
\* to onUpdateChallan can carry (one of them is not in the list)
ListIds == <<"CH001", "CH002">>
ChallanIds == {"CH001", "CH002", "CH003"}
\* the two statuses handleUpdateChallan tests for, and any other
Statuses == {"PENDING", "VERIFIED", "REFUTED"}
KpiIds == {"verified_challans", "pending_verification", "refuted_challans"}
\* the KPI cards a fixture may hold
KpiIdSets == {KpiIds, KpiIds \ {"pending_verification"}, {"pending_verification"}}

ChallanLists ==
    {[i \in DOMAIN ListIds |-> [challanId |-> ListIds[i], status |-> f[i]]] :
        f \in [DOMAIN ListIds -> Statuses]}

CountOf(list, status) ==
    Cardinality({i \in DOMAIN list : list[i].status = status})

\* KPI cards that agree with the list
KpisOf(list, ids) ==
    [k \in ids |->
        CASE k = "verified_challans" -> CountOf(list, "VERIFIED")
          [] k = "refuted_challans" -> CountOf(list, "REFUTED")
          [] OTHER -> CountOf(list, "PENDING")]

\* export const initialNewEventState
initialNewEventState ==
    [id |-> "", title |-> "", description |-> "", type |-> "",
     severity |-> "", status |-> "scheduled",
     locationMode |-> "junction", junction_id |-> "", route_id |-> "",
     location_description |-> "",
     start_time |-> "", end_time |-> "",
     affected_routes |-> <<>>, estimated_delay_min |-> "",
     authoritiesMode |-> "authorities", authorities |-> <<>>,
     created_by |-> "system"]

\* the page and the form before anything has run
PollIdle ==
    /\ mounted = "rendered"
    /\ windowL = FALSE
    /\ attempts = 0
    /\ checkScripts = "none"
    /\ scriptsLoaded = FALSE

ChallansIdle ==
    /\ challans \in ChallanLists
    /\ kpis \in {KpisOf(challans, ids) : ids \in KpiIdSets}
    /\ selectedChallanId = NoChallan
    /\ isModalOpen = FALSE
    /\ viewMode = "list"
    /\ updates = 0

FormIdle ==
    /\ formVersion = 1
    /\ newEvent = initialNewEventState

\* one fixture: every challan pending, the three KPI cards
ChallansRest ==
    /\ challans = [i \in DOMAIN ListIds |->
                      [challanId |-> ListIds[i], status |-> "PENDING"]]
    /\ kpis = KpisOf(challans, KpiIds)
    /\ selectedChallanId = NoChallan
    /\ isModalOpen = FALSE
    /\ viewMode = "list"
    /\ updates = 0

PageIdle ==
    /\ PollIdle
    /\ ChallansRest
    /\ FormIdle

NoLoad == [uri |-> NoUri, status |-> "none"]

Init ==
    /\ variant \in Variants
    /\ camera = FALSE
    /\ modelUri = NoUri
    /\ model = NoModel
    /\ modelState = "loading"
    /\ logs = <<>>
    /\ imageUri = NoImage
    /\ processing = FALSE
    /\ loads = [k \in LoadIds |-> NoLoad]
    /\ runs = [r \in RunIds |-> IdleRun]
    /\ presses = 0
    /\ calls = {}
    /\ ppInput = [classes |-> Missing, scores |-> Missing]
    /\ ppResult = [threw |-> FALSE, dets |-> <<>>]
    /\ ppDone = FALSE
    /\ rdInput = NewRgb(0)
    /\ rdResult = NewRgb(0)
    /\ rdDone = FALSE
    /\ PageIdle

\* the promise status, in the load table ls, of the load that made model m
LoadStatusOf(ls, m) == IF m \in LoadIds THEN ls[m].status ELSE "none"

\* history record of one model.runSync([buffer]) call on m: an array of one
\* input buffer of bufLen bytes, with the status the load of m has when the
\* call is made
Call(ls, m, kind, run, bufLen) ==
    [model |-> m, kind |-> kind, run |-> run, inputs |-> 1, bufLen |-> bufLen,
     loadStatus |-> LoadStatusOf(ls, m)]

StartedLoads == {k \in LoadIds : loads[k].status # "none"}
NextLoad == Cardinality(StartedLoads) + 1

\* the events of the behaviour so far are within the bound
EventsLeft == presses + Cardinality(StartedLoads) < MaxEvents

\* URIs are opaque to the component: what matters is when the asset hook
\* delivers a URI that differs from the current one, not which one it is
FreshUri == IF modelUri = "modelA" THEN "modelB" ELSE "modelA"
StartedRuns == {r \in RunIds : runs[r].pc # "idle"}
NextRun == Cardinality(StartedRuns) + 1

\* ------------------------------------------------------------ model load
\* useAssets delivers the asset: setModelUri(uri); the effect on [modelUri]
\* then runs load() up to its await: if (!modelUri) return;
\* setModelState('loading'); addLog('Loading model...'); loadTensorflowModel
AssetsLoaded(u) ==
    /\ u # modelUri
    /\ EventsLeft
    /\ modelUri' = u
    /\ modelState' = "loading"
    /\ logs' = AddLog(logs, Line("Loading model", u, 0, 0))
    /\ loads' = [loads EXCEPT ![NextLoad] = [uri |-> u, status |-> "pending"]]
    /\ UNCHANGED <<variant, camera, model, imageUri, processing, runs, presses, calls>>
    /\ UNCHANGED otherVars

\* mutant: a warm-up that throws is logged as a load error
WarmupLogsFailureReported(warmOk) ==
    <<Line("Model loaded! Warming up...", "", 0, 0)>>
    \o (IF warmOk THEN <<Line("Warmup complete.", "", 0, 0)>>
        ELSE <<Line("Error loading model", "", 0, 0)>>)

\* the messages load() logs once the model is there: the warm-up runSync
\* either returns or throws into the inner catch (console.error only)
WarmupLogs(warmOk) ==
    <<Line("Model loaded! Warming up...", "", 0, 0)>>
    \o (IF warmOk THEN <<Line("Warmup complete.", "", 0, 0)>> ELSE <<>>)

\* mutant: setModel(m) is left out
LoadResolvedStateOnly(k, warmOk) ==
    /\ loads[k].status = "pending"
    /\ loads' = [loads EXCEPT ![k].status = "resolved"]
    /\ logs' = AddAll(logs, WarmupLogs(warmOk))
    /\ calls' = calls \cup
          {Call(loads', k, "warmup", 0, InputSide * InputSide * 3)}
    /\ modelState' = "loaded"
    /\ UNCHANGED <<variant, camera, modelUri, model, imageUri, processing,
                   runs, presses>>
    /\ UNCHANGED otherVars

\* loadTensorflowModel resolved with m: warm-up, setModel(m),
\* setModelState('loaded')
LoadResolved(k, warmOk) ==
    /\ loads[k].status = "pending"
    /\ loads' = [loads EXCEPT ![k].status = "resolved"]
    /\ logs' = AddAll(logs, WarmupLogs(warmOk))
    /\ calls' = calls \cup
          {Call(loads', k, "warmup", 0, InputSide * InputSide * 3)}
    /\ model' = k
    /\ modelState' = "loaded"
    /\ UNCHANGED <<variant, camera, modelUri, imageUri, processing, runs, presses>>
    /\ UNCHANGED otherVars

\* loadTensorflowModel rejected: addLog(`Error loading model`),
\* setModelState('error')
LoadRejected(k) ==
    /\ loads[k].status = "pending"
    /\ loads' = [loads EXCEPT ![k].status = "rejected"]
    /\ logs' = AddLog(logs, Line("Error loading model", "", 0, 0))
    /\ modelState' = "error"
    /\ UNCHANGED <<variant, camera, modelUri, model, imageUri, processing,
                   runs, presses, calls>>
    /\ UNCHANGED otherVars

\* camera variant: permission granted and a back camera found
CameraAvailable ==
    /\ variant = "camera"
    /\ ~camera
    /\ camera' = TRUE
    /\ UNCHANGED <<variant, modelUri, model, modelState, logs, imageUri,
                   processing, loads, runs, presses, calls>>
    /\ UNCHANGED otherVars

\* ---------------------------------------------------------------- handlers
\* mutant: the null check is left out
ModelNeverMissing(m) == FALSE

\* if (!model)
ModelMissing(m) == m = NoModel

\* picker variant: disabled={processing || modelState !== 'loaded'}
PickDisabled == processing \/ modelState # "loaded"

\* camera variant: the controls are rendered only past the three early
\* returns of the component, and the button has disabled={processing}
CameraViewShown == camera /\ modelState = "loaded"
CaptureDisabled == ~CameraViewShown \/ processing

\* cameraRef.current is set while <Camera ref={cameraRef}> is rendered
CameraRefSet == CameraViewShown

StartRun(r, pc, stages) ==
    [runs EXCEPT ![r] = [pc |-> pc, model |-> model, uri |-> NoImage,
                         stages |-> stages, failed |-> "none",
                         outcome |-> "none", decLen |-> 0,
                         classes |-> Missing, scores |-> Missing]]

\* pickAndDetect up to its await
PickAndDetect ==
    /\ variant = "picker"
    /\ EventsLeft
    /\ presses' = presses + 1
    /\ IF ModelMissing(model)
       THEN /\ logs' = AddLog(logs, Line("Wait for model to load.", "", 0, 0))
            /\ UNCHANGED runs
       ELSE /\ runs' = StartRun(NextRun, "picking", <<"acquire">>)
            /\ UNCHANGED logs
    /\ UNCHANGED <<variant, camera, modelUri, model, modelState, imageUri,
                   processing, loads, calls>>
    /\ UNCHANGED otherVars

\* captureAndDetect up to its await
CaptureAndDetect ==
    /\ variant = "camera"
    /\ EventsLeft
    /\ presses' = presses + 1
    /\ IF ModelMissing(model)
       THEN /\ logs' = AddLog(logs, Line("Wait for model to load.", "", 0, 0))
            /\ UNCHANGED <<runs, processing>>
       ELSE IF ~CameraRefSet
       THEN /\ logs' = AddLog(logs, Line("Camera not ready", "", 0, 0))
            /\ UNCHANGED <<runs, processing>>
       ELSE /\ processing' = TRUE
            /\ logs' = AddLog(logs, Line("Capturing photo...", "", 0, NextRun))
            /\ runs' = StartRun(NextRun, "capturing", <<"acquire">>)
    /\ UNCHANGED <<variant, camera, modelUri, model, modelState, imageUri,
                   loads, calls>>
    /\ UNCHANGED otherVars

\* a press of the rendered button
PressPick == ~PickDisabled /\ PickAndDetect
PressCapture == ~CaptureDisabled /\ CaptureAndDetect

\* mutant: a run that failed is sent back to the start of runInference
EndRunRetries(r, failed, outcome) ==
    IF failed = "none"
    THEN [runs EXCEPT ![r].pc = "done", ![r].outcome = outcome]
    ELSE [runs EXCEPT ![r].pc = "timer", ![r].failed = failed,
                      ![r].outcome = outcome]

EndRun(r, failed, outcome) ==
    [runs EXCEPT ![r].pc = "done", ![r].failed = failed, ![r].outcome = outcome]

\* launchImageLibraryAsync settles: rejected (catch: Pick Error), canceled
\* (return), or an asset: setImageUri, setProcessing(true), addLog, setTimeout
PickerSettles(r, res) ==
    /\ runs[r].pc = "picking"
    /\ IF res = "rejected"
       THEN /\ logs' = AddLog(logs, Line("Pick Error", "", 0, r))
            /\ processing' = FALSE
            /\ runs' = EndRun(r, "acquire", "acquireError")
            /\ UNCHANGED imageUri
       ELSE IF res = "canceled"
       THEN /\ runs' = EndRun(r, "none", "canceled")
            /\ UNCHANGED <<logs, processing, imageUri>>
       ELSE /\ imageUri' = res
            /\ processing' = TRUE
            /\ logs' = AddLog(logs, Line("Image picked. Pre-processing...", "", 0, r))
            /\ runs' = [runs EXCEPT ![r].pc = "timer", ![r].uri = res]
    /\ UNCHANGED <<variant, camera, modelUri, model, modelState, loads,
                   presses, calls>>
    /\ UNCHANGED otherVars

\* takePhoto settles: rejected (catch: Capture Error), or a photo:
\* setImageUri, addLog, setTimeout
PhotoSettles(r, res) ==
    /\ runs[r].pc = "capturing"
    /\ IF res = "rejected"
       THEN /\ logs' = AddLog(logs, Line("Capture Error", "", 0, r))
            /\ processing' = FALSE
            /\ runs' = EndRun(r, "acquire", "acquireError")
            /\ UNCHANGED imageUri
       ELSE /\ imageUri' = res
            /\ logs' = AddLog(logs, Line("Photo captured. Processing...", "", 0, r))
            /\ runs' = [runs EXCEPT ![r].pc = "timer", ![r].uri = res]
            /\ UNCHANGED processing
    /\ UNCHANGED <<variant, camera, modelUri, model, modelState, loads,
                   presses, calls>>
    /\ UNCHANGED otherVars

\* ------------------------------------------------------------ runInference
\* catch (e) { addLog(`Inference Error: ${e}`); setProcessing(false); }
\* arg names the stage whose call threw (the text of e)
ErrorLine(r, stage) == Line("Inference Error", stage, 0, r)

\* addLog(`FOUND: ${label} (${(score * 100).toFixed(0)}%)`) for each detection
RECURSIVE FoundLines(_, _)
FoundLines(dets, r) ==
    IF dets = <<>> THEN <<>>
    ELSE <<FoundLine(Head(dets).label, PctOf(Head(dets).score), r,
                     Head(dets).slot)>>
         \o FoundLines(Tail(dets), r)

\* the picker variant logs the number of output tensors before parsing
DoneLines(v, r, out) ==
    IF v = "picker"
    THEN <<Line("Inference Done! Output tensors", ToString(out.n), 0, r)>>
    ELSE <<>>

RunningLine(v, r) ==
    IF v = "picker" THEN Line("Running inference on image...", "", 0, r)
    ELSE Line("Running inference...", "", 0, r)

\* mutant: the notice is logged whatever count is
EmptyLinesAlways(dets, r) == <<Line("No objects detected > 40%", "", 0, r)>>

\* if (count === 0) addLog("No objects detected > 40%")
EmptyLines(dets, r) ==
    IF Len(dets) = 0 THEN <<Line("No objects detected > 40%", "", 0, r)>> ELSE <<>>

\* mutant: the empty notice is logged whenever count is 0, also after a throw
TailLinesNoticeAlways(v, r, out, pp) ==
    DoneLines(v, r, out) \o FoundLines(pp.dets, r)
    \o EmptyLines(pp.dets, r)
    \o (IF pp.threw THEN <<ErrorLine(r, "post")>> ELSE <<>>)

\* The addLog calls of runInference after runSync has returned out and the
\* loop has ended as pp: the detections, then the empty notice (count === 0)
\* or, when the loop threw, the catch block's error line.
TailLines(v, r, out, pp) ==
    DoneLines(v, r, out) \o FoundLines(pp.dets, r)
    \o (IF pp.threw THEN <<ErrorLine(r, "post")>> ELSE EmptyLines(pp.dets, r))

\* mutant: the detector is called before the channel reduction
AfterDecodeInferFirst(v, r, out) ==
    IF ~out.ok
    THEN [msgs |-> <<RunningLine(v, r), ErrorLine(r, "infer")>>,
          stages |-> <<"decode", "infer">>,
          outcome |-> "error", called |-> TRUE]
    ELSE LET pp == PostProcess(out.classes, out.scores) IN
         [msgs |-> <<RunningLine(v, r)>> \o TailLines(v, r, out, pp),
          stages |-> <<"decode", "infer", "reduce", "post">>,
          outcome |-> IF pp.threw THEN "error"
                      ELSE IF Len(pp.dets) = 0 THEN "empty" ELSE "found",
          called |-> TRUE]

\* runInference from the channel reduction on, the pixels being decoded:
\* the copy loop, runSync (out is what it does) and post-processing
AfterDecode(v, r, out) ==
    IF ~out.ok
    THEN [msgs |-> <<RunningLine(v, r), ErrorLine(r, "infer")>>,
          stages |-> <<"decode", "reduce", "infer">>,
          outcome |-> "error", called |-> TRUE]
    ELSE LET pp == PostProcess(out.classes, out.scores) IN
         [msgs |-> <<RunningLine(v, r)>> \o TailLines(v, r, out, pp),
          stages |-> <<"decode", "reduce", "infer", "post">>,
          outcome |-> IF pp.threw THEN "error"
                      ELSE IF Len(pp.dets) = 0 THEN "empty" ELSE "found",
          called |-> TRUE]

\* mutant: a throw of jpeg.decode is swallowed and the pass goes on
InferTailDecodeSwallowed(v, r, dec, out) == AfterDecode(v, r, out)

\* The synchronous rest of runInference once file.base64() has resolved:
\* decode, channel reduction, runSync, post-processing.  dec and out are what
\* jpeg.decode and model.runSync do.  The result lists the addLog calls in
\* order, the stages entered and whether runSync was called.
InferTail(v, r, dec, out) ==
    IF ~dec.ok
    THEN [msgs |-> <<ErrorLine(r, "decode")>>, stages |-> <<"decode">>,
          outcome |-> "error", called |-> FALSE]
    ELSE AfterDecode(v, r, out)

\* history: the stage whose call threw in the rest of runInference
ThrownStage(dec, out) ==
    IF ~dec.ok THEN "decode"
    ELSE IF ~out.ok THEN "infer"
    ELSE IF PostProcess(out.classes, out.scores).threw THEN "post"
    ELSE "none"

\* mutant: the catch block logs the error but leaves the busy flag set
FailRunKeepsBusy(r, stage) ==
    /\ logs' = AddLog(logs, ErrorLine(r, stage))
    /\ UNCHANGED processing
    /\ runs' = EndRun(r, stage, "error")

\* a stage's awaited call rejected: the catch block of runInference
FailRun(r, stage) ==
    /\ logs' = AddLog(logs, ErrorLine(r, stage))
    /\ processing' = FALSE
    /\ runs' = EndRun(r, stage, "error")

\* the 100 ms timer fires: runInference(sourceUri) up to its first await.
\* if (!model) return; then ImageManipulator.manipulateAsync(...)
TimerFires(r) ==
    /\ runs[r].pc = "timer"
    /\ IF ModelMissing(runs[r].model)
       THEN runs' = EndRun(r, "none", "noModel")
       ELSE runs' = [runs EXCEPT ![r].pc = "manip",
                                 ![r].stages = Append(@, "normalize")]
    /\ UNCHANGED <<variant, camera, modelUri, model, modelState, logs, imageUri,
                   processing, loads, presses, calls>>
    /\ UNCHANGED otherVars

\* manipulateAsync settles; on success new FileSystem.File(uri).base64()
ManipSettles(r, ok) ==
    /\ runs[r].pc = "manip"
    /\ IF ok
       THEN /\ runs' = [runs EXCEPT ![r].pc = "read",
                                    ![r].stages = Append(@, "read")]
            /\ UNCHANGED <<logs, processing>>
       ELSE FailRun(r, "normalize")
    /\ UNCHANGED <<variant, camera, modelUri, model, modelState, imageUri,
                   loads, presses, calls>>
    /\ UNCHANGED otherVars

\* file.base64() settles; on success the rest of runInference runs through
ReadSettles(r, ok, dec, out) ==
    /\ runs[r].pc = "read"
    /\ IF ~ok
       THEN FailRun(r, "read") /\ UNCHANGED calls
       ELSE LET t == InferTail(variant, r, dec, out) IN
            /\ logs' = AddAll(logs, t.msgs)
            /\ processing' = FALSE
            /\ runs' = [runs EXCEPT ![r].pc = "done",
                                    ![r].stages = @ \o t.stages,
                                    ![r].failed = ThrownStage(dec, out),
                                    ![r].outcome = t.outcome,
                                    ![r].decLen = dec.len,
                                    ![r].classes = IF dec.ok /\ out.ok
                                                   THEN out.classes ELSE Missing,
                                    ![r].scores = IF dec.ok /\ out.ok
                                                  THEN out.scores ELSE Missing]
            /\ calls' = IF t.called
                        THEN calls \cup {Call(loads, runs[r].model, "inference",
                                              r, RgbLen(dec.len))}
                        ELSE calls
    /\ UNCHANGED <<variant, camera, modelUri, model, modelState, imageUri,
                   loads, presses>>
    /\ UNCHANGED otherVars

\* what file.base64(), jpeg.decode and model.runSync can do in one pass; a
\* call that is not reached has no outcome to choose
TailOutcomes ==
    {[ok |-> FALSE, dec |-> DecodeThrow, out |-> OutThrow],
     [ok |-> TRUE, dec |-> DecodeThrow, out |-> OutThrow]}
    \cup {[ok |-> TRUE, dec |-> FullDecode, out |-> o] : o \in InferOutcomes}
    \cup {[ok |-> TRUE, dec |-> d, out |-> o] :
             d \in DecodeOutcomes \ {DecodeThrow, FullDecode},
             o \in OddSizeOutcomes}

\* ---------------------------------------------------------- specifications
Environment ==
    \/ \E u \in {FreshUri} : AssetsLoaded(u)
    \/ \E k \in LoadIds, w \in BOOLEAN : LoadResolved(k, w)
    \/ \E k \in LoadIds : LoadRejected(k)
    \/ CameraAvailable

Pipeline ==
    \/ \E r \in RunIds, res \in {"rejected", "canceled"} \cup Images :
          PickerSettles(r, res)
    \/ \E r \in RunIds, res \in {"rejected"} \cup Images : PhotoSettles(r, res)
    \/ \E r \in RunIds : TimerFires(r)
    \/ \E r \in RunIds, ok \in BOOLEAN : ManipSettles(r, ok)
    \/ \E r \in RunIds, t \in TailOutcomes : ReadSettles(r, t.ok, t.dec, t.out)

\* the handlers are reached through the rendered buttons
Next == Environment \/ Pipeline \/ PressPick \/ PressCapture

Spec == Init /\ [][Next]_vars

\* the handlers are called in any state, whatever the buttons show
NextDirect == Environment \/ Pipeline \/ PickAndDetect \/ CaptureAndDetect

SpecDirect == Init /\ [][NextDirect]_vars

\* every awaited call settles and every timer fires
SpecLive == Spec /\ WF_vars(Pipeline)

\* ------------------------------------------- post-processing on its own
\* tensors longer than the slot count by up to this many elements
ExtraSlots == 2

ScoreValues == {300, 400, 401, 820, 910}
HotSlots == {0, 2, NumSlots - 1, NumSlots, NumSlots + ExtraSlots - 1}
TensorLens == {0, 3, NumSlots, NumSlots + ExtraSlots}
ClassCycle == <<2, 5, 0, 1, 7, 3, 42, 9, 4>>

\* a score tensor of a length with two marked slots, b elsewhere
ScoresOf(len, b, p, v, q, w) ==
    [i \in 1..len |-> IF i - 1 = p THEN v ELSE IF i - 1 = q THEN w ELSE b]

ClassesOf(len) ==
    [i \in 1..len |-> ClassCycle[((i - 1) % Len(ClassCycle)) + 1]]

PostInputs ==
    {[classes |-> Tensor(ClassesOf(cl)),
      scores |-> Tensor(ScoresOf(len, b, p, v, q, w))] :
        len \in TensorLens, cl \in {1, NumSlots + ExtraSlots}, b \in {300, 400},
        p \in HotSlots, q \in HotSlots, v \in ScoreValues, w \in ScoreValues}
    \cup {[classes |-> Missing, scores |-> Tensor(ScoresOf(3, 300, 0, v, 2, w))] :
             v \in ScoreValues, w \in ScoreValues}
    \cup {[classes |-> Tensor(ClassesOf(3)), scores |-> Missing]}

InitPost ==
    /\ variant = "picker"
    /\ camera = FALSE
    /\ modelUri = NoUri
    /\ model = NoModel
    /\ modelState = "loading"
    /\ logs = <<>>
    /\ imageUri = NoImage
    /\ processing = FALSE
    /\ loads = [k \in LoadIds |-> NoLoad]
    /\ runs = [r \in RunIds |-> IdleRun]
    /\ presses = 0
    /\ calls = {}
    /\ ppInput \in PostInputs
    /\ ppResult = [threw |-> FALSE, dets |-> <<>>]
    /\ ppDone = FALSE
    /\ rdInput = NewRgb(0)
    /\ rdResult = NewRgb(0)
    /\ rdDone = FALSE
    /\ PageIdle

\* the loop of runInference applied to output[1] and output[2]
PostApply ==
    /\ ~ppDone
    /\ ppResult' = PostProcess(ppInput.classes, ppInput.scores)
    /\ ppDone' = TRUE
    /\ UNCHANGED <<ppInput, detectorVars, reduceVars, pageVars>>

NextPost == PostApply

SpecPost == InitPost /\ [][NextPost]_vars

\* --------------------------------------------- channel reduction on its own
\* decoded buffers of up to this many samples, byte by byte
MaxRgba == 9

\* samples lo .. hi-1 of a ramp: sample i is base + i * step, modulo 256
RECURSIVE Samples(_, _, _, _)
Samples(lo, hi, base, step) ==
    IF hi <= lo THEN <<>>
    ELSE IF hi = lo + 1 THEN <<(base + lo * step) % 256>>
    ELSE LET mid == (lo + hi) \div 2 IN
         Samples(lo, mid, base, step) \o Samples(mid, hi, base, step)

\* rawData.data of len samples: a ramp up to sample MaxRgba, zeros after it
BytesOf(len, base, step) ==
    [len |-> len,
     data |-> Samples(0, IF len < MaxRgba THEN len ELSE MaxRgba, base, step)]

SmallBuffers ==
    {BytesOf(len, base, step) :
        len \in 0..MaxRgba, base \in {0, 7, 250}, step \in {1, 3, 37}}

\* the decode of an image of side x side pixels, of one pixel less and of
\* one pixel more
SizedBuffers(side) ==
    {BytesOf(4 * n, 7, 37) : n \in {side * side - 1, side * side, side * side + 1}}

InitReduce ==
    /\ variant = "picker"
    /\ camera = FALSE
    /\ modelUri = NoUri
    /\ model = NoModel
    /\ modelState = "loading"
    /\ logs = <<>>
    /\ imageUri = NoImage
    /\ processing = FALSE
    /\ loads = [k \in LoadIds |-> NoLoad]
    /\ runs = [r \in RunIds |-> IdleRun]
    /\ presses = 0
    /\ calls = {}
    /\ ppInput = [classes |-> Missing, scores |-> Missing]
    /\ ppResult = [threw |-> FALSE, dets |-> <<>>]
    /\ ppDone = FALSE
    /\ rdInput \in SmallBuffers \cup SizedBuffers(InputSide)
    /\ rdResult = NewRgb(0)
    /\ rdDone = FALSE
    /\ PageIdle

\* the channel reduction of runInference applied to rawData.data
ReduceApply ==
    /\ ~rdDone
    /\ rdResult' = ChannelReduce(rdInput)
    /\ rdDone' = TRUE
    /\ UNCHANGED <<rdInput, detectorVars, postVars, pageVars>>

NextReduce == ReduceApply

SpecReduce == InitReduce /\ [][NextReduce]_vars

\* ========================================================= web dashboard
\* the detector and the two harnesses at rest, while the dashboard runs
DetectorIdle ==
    /\ variant = "picker"
    /\ camera = FALSE
    /\ modelUri = NoUri
    /\ model = NoModel
    /\ modelState = "loading"
    /\ logs = <<>>
    /\ imageUri = NoImage
    /\ processing = FALSE
    /\ loads = [k \in LoadIds |-> NoLoad]
    /\ runs = [r \in RunIds |-> IdleRun]
    /\ presses = 0
    /\ calls = {}
    /\ ppInput = [classes |-> Missing, scores |-> Missing]
    /\ ppResult = [threw |-> FALSE, dets |-> <<>>]
    /\ ppDone = FALSE
    /\ rdInput = NewRgb(0)
    /\ rdResult = NewRgb(0)
    /\ rdDone = FALSE

\* ------------------------------------ ChallansPage: Leaflet readiness poll
InitPoll ==
    /\ DetectorIdle
    /\ PageIdle

\* useEffect(() => { ... setInterval(..., 100) ... }, []) after the first commit
MountEffect ==
    /\ mounted = "rendered"
    /\ mounted' = "mounted"
    /\ attempts' = 0
    /\ checkScripts' = "set"
    /\ UNCHANGED <<windowL, scriptsLoaded, challanVars, formVars,
                   detectorVars, postVars, reduceVars>>

\* the Leaflet script finishes loading and defines window.L
ScriptArrives ==
    /\ ~windowL
    /\ windowL' = TRUE
    /\ UNCHANGED <<mounted, attempts, checkScripts, scriptsLoaded,
                   challanVars, formVars, detectorVars, postVars, reduceVars>>

\* the interval callback clearing one tick too late
CheckScriptsLate(a, L) ==
    [loaded |-> L, cleared |-> L \/ a > maxAttempts]

\* the body of the interval callback after attempts++: whether it calls
\* setScriptsLoaded(true) and whether it calls clearInterval
CheckScripts(a, L) ==
    [loaded |-> L, cleared |-> L \/ a >= maxAttempts]

\* one firing of the interval
Tick ==
    /\ checkScripts = "set"
    /\ attempts' = attempts + 1
    /\ LET c == CheckScripts(attempts + 1, windowL) IN
        /\ scriptsLoaded' = (scriptsLoaded \/ c.loaded)
        /\ checkScripts' = IF c.cleared THEN "cleared" ELSE "set"
    /\ UNCHANGED <<mounted, windowL, challanVars, formVars,
                   detectorVars, postVars, reduceVars>>

\* return () => clearInterval(checkScripts)
Unmount ==
    /\ mounted = "mounted"
    /\ mounted' = "unmounted"
    /\ checkScripts' = "cleared"
    /\ UNCHANGED <<windowL, attempts, scriptsLoaded, challanVars, formVars,
                   detectorVars, postVars, reduceVars>>

NextPoll ==
    \/ MountEffect
    \/ ScriptArrives
    \/ Tick
    \/ Unmount

SpecPoll == InitPoll /\ [][NextPoll]_vars

\* the effect runs after the commit and a set interval keeps firing
SpecPollLive == SpecPoll /\ WF_vars(MountEffect) /\ WF_vars(Tick)

\* ------------------------------------- ChallansPage: modal, list and KPIs
\* handleUpdateChallan calls explored per behaviour
MaxUpdates == 3

InitChallans ==
    /\ DetectorIdle
    /\ PollIdle
    /\ ChallansIdle
    /\ FormIdle

\* onClick={() => setViewMode('list')} / setViewMode('map')
SetViewMode(m) ==
    /\ viewMode' = m
    /\ UNCHANGED <<challans, kpis, selectedChallanId, isModalOpen, updates,
                   pollVars, formVars, detectorVars, postVars, reduceVars>>

\* the table is rendered in list view only
TableShown == viewMode = "list"
\* {selectedChallanId && (<ChallanDetailModal ... />)}
ModalRendered == selectedChallanId # NoChallan

\* handleViewDetails, called by a row of the table
handleViewDetails(challanId) ==
    /\ TableShown
    /\ selectedChallanId' = challanId
    /\ isModalOpen' = TRUE
    /\ UNCHANGED <<challans, kpis, viewMode, updates,
                   pollVars, formVars, detectorVars, postVars, reduceVars>>

\* closing that keeps the selection
handleCloseModalKeepsSelection ==
    /\ isModalOpen' = FALSE
    /\ selectedChallanId' = selectedChallanId

\* the two updates of handleCloseModal
handleCloseModal ==
    /\ isModalOpen' = FALSE
    /\ selectedChallanId' = NoChallan

\* onClose of the modal
OnClose ==
    /\ ModalRendered
    /\ handleCloseModal
    /\ UNCHANGED <<challans, kpis, viewMode, updates,
                   pollVars, formVars, detectorVars, postVars, reduceVars>>

\* prev.map((c) => (c.challanId === updatedChallan.challanId ? updatedChallan : c))
UpdatedChallans(prev, updatedChallan) ==
    [i \in DOMAIN prev |->
        IF prev[i].challanId = updatedChallan.challanId
            THEN updatedChallan ELSE prev[i]]

\* if (pendingIndex !== -1) updatedKpis[pendingIndex].value -= 1
PendingDecremented(k) ==
    IF "pending_verification" \in DOMAIN k
        THEN [k EXCEPT !["pending_verification"] = @ - 1]
        ELSE k

\* the updater handleUpdateChallan hands to setKpis
UpdatedKpis(prevKpis, status) ==
    IF status = "VERIFIED" /\ "verified_challans" \in DOMAIN prevKpis
        THEN PendingDecremented(
                 [prevKpis EXCEPT !["verified_challans"] = @ + 1])
    ELSE IF status = "REFUTED" /\ "refuted_challans" \in DOMAIN prevKpis
        THEN PendingDecremented(
                 [prevKpis EXCEPT !["refuted_challans"] = @ + 1])
    ELSE prevKpis

\* handleUpdateChallan, called by the modal with the challan it edited
handleUpdateChallan(updatedChallan) ==
    /\ ModalRendered
    /\ updates < MaxUpdates
    /\ updates' = updates + 1
    /\ challans' = UpdatedChallans(challans, updatedChallan)
    /\ kpis' = UpdatedKpis(kpis, updatedChallan.status)
    /\ handleCloseModal
    /\ UNCHANGED <<viewMode, pollVars, formVars,
                   detectorVars, postVars, reduceVars>>

NextChallans ==
    \/ \E m \in ViewModes : SetViewMode(m)
    \/ \E id \in ChallanIds : handleViewDetails(id)
    \/ OnClose
    \/ \E id \in ChallanIds, st \in Statuses :
           handleUpdateChallan([challanId |-> id, status |-> st])

SpecChallans == InitChallans /\ [][NextChallans]_vars

\* ---------------------------------------------------- AddEventModal: form
\* the file holds two versions of the component, one after the other
FormVersions == {1, 2}
\* <option value="junction"> and <option value="route">
LocationOptions == {"junction", "route"}
\* what the user types into a text input
Typed == {"", "J001", "R003"}
\* text inputs other than the two ids
TextFields == {"id", "title", "location_description"}

InitForm ==
    /\ DetectorIdle
    /\ PollIdle
    /\ ChallansRest
    /\ formVersion \in FormVersions
    /\ newEvent = initialNewEventState

\* onChange of a text input: setNewEvent((p) => ({ ...p, [field]: e.target.value }))
EditField(field, v) ==
    /\ newEvent' = [newEvent EXCEPT ![field] = v]
    /\ UNCHANGED <<formVersion, pollVars, challanVars,
                   detectorVars, postVars, reduceVars>>

\* the input rendered under the select: the junction one in 'junction'
\* mode; the route one in 'route' mode (first version) or in any other
\* mode (second version)
JunctionInputShown == newEvent.locationMode = "junction"
RouteInputShown ==
    IF formVersion = 1
        THEN newEvent.locationMode = "route"
        ELSE newEvent.locationMode # "junction"

EditJunctionId(v) ==
    /\ JunctionInputShown
    /\ EditField("junction_id", v)

EditRouteId(v) ==
    /\ RouteInputShown
    /\ EditField("route_id", v)

\* a mode switch that keeps both ids
LocationModeChangedKeepsIds(p, value) ==
    [p EXCEPT !.locationMode = value]

\* the updater of the select's onChange
LocationModeChanged(p, value) ==
    [p EXCEPT !.locationMode = value,
              !.junction_id = IF value = "junction" THEN p.junction_id ELSE "",
              !.route_id = IF value = "route" THEN p.route_id ELSE ""]

ChangeLocationMode(value) ==
    /\ newEvent' = LocationModeChanged(newEvent, value)
    /\ UNCHANGED <<formVersion, pollVars, challanVars,
                   detectorVars, postVars, reduceVars>>

NextForm ==
    \/ \E f \in TextFields, v \in Typed : EditField(f, v)
    \/ \E v \in Typed : EditJunctionId(v)
    \/ \E v \in Typed : EditRouteId(v)
    \/ \E value \in LocationOptions : ChangeLocationMode(value)

SpecForm == InitForm /\ [][NextForm]_vars

\* ================================================================= claims
Last(q) == q[Len(q)]
LogIdx == 1..Len(logs)
IsFound(i) == logs[i].kind = "FOUND"

\* a run that has its image and has not settled
InPipeline(r) == runs[r].pc \in {"timer", "manip", "read"}

\* C1: at most one pipeline run is in flight at any time: no two runs are,
\* at the same time, past a pick or capture and not yet settled.
C1_SingleFlight == Cardinality({r \in RunIds : InPipeline(r)}) <= 1

\* C2: every model.runSync call, warm-up or inference, is made on a model
\* instance whose loadTensorflowModel call had resolved when the call was
\* made; none is made on a missing model or one whose load is pending or
\* has failed.
C2_RunSyncAfterLoad ==
    \A c \in calls : c.model \in LoadIds /\ c.loadStatus = "resolved"

\* C2 witness: an inference call has been made while another load has failed
C2_Witness ==
    \E c \in calls, k \in LoadIds :
        c.kind = "inference" /\ k # c.model /\ loads[k].status = "rejected"

\* a step that calls pickAndDetect or captureAndDetect
HandlerCalled == presses' = presses + 1

\* C3 (as claimed): a handler called while modelState is not 'loaded' is
\* rejected: one precondition message is put on the log, nothing else
\* changes and no external call is started.
C3_RejectedUnlessLoaded ==
    [][(HandlerCalled /\ modelState # "loaded") =>
          /\ \E kind \in {"Wait for model to load.", "Camera not ready"} :
                logs' = <<Line(kind, "", 0, 0)>> \o logs
          /\ UNCHANGED <<processing, imageUri, runs, calls>>]_vars

\* C3 (amended): a handler called while no model is held is rejected: "Wait
\* for model to load." is put on the log, processing and imageUri keep their
\* values and no picker, camera, manipulator or runSync call is started.
C3_RejectedWhenNoModel ==
    [][(HandlerCalled /\ model = NoModel) =>
          /\ logs' = <<Line("Wait for model to load.", "", 0, 0)>> \o logs
          /\ UNCHANGED <<processing, imageUri, runs, calls>>]_vars

\* C3 witness: a handler was called and rejected after the load had failed
C3_Witness ==
    /\ modelState = "error"
    /\ model = NoModel
    /\ Len(logs) > 0
    /\ Head(logs).kind = "Wait for model to load."

\* C4: whenever the busy flag is set it is cleared again, every run that was
\* started settles, and the step in which a run with an image settles
\* leaves the flag cleared, whatever the outcome of the run.
C4_BusyResets ==
    /\ processing ~> ~processing
    /\ \A r \in RunIds : (runs[r].pc \notin {"idle", "done"}) ~> (runs[r].pc = "done")
    /\ [][\A r \in RunIds :
             (InPipeline(r) /\ runs'[r].pc = "done") => ~processing']_vars

\* C4 witness: after a run that failed, a second run was started from
\* acquisition and found detections, and the flag is cleared
C4_Witness ==
    /\ ~processing
    /\ runs[1].pc = "done" /\ runs[1].outcome = "error"
    /\ runs[2].pc = "done" /\ runs[2].outcome = "found"

\* C5: a run in which a stage failed ended at that stage: the failed stage is
\* the last one it entered, and a run whose acquisition, normalization, file
\* read or decode failed made no runSync call.
C5_FailedStageEndsRun ==
    \A r \in RunIds :
        runs[r].failed # "none" =>
            /\ runs[r].pc = "done"
            /\ Last(runs[r].stages) = runs[r].failed
            /\ runs[r].failed \in {"acquire", "normalize", "read", "decode"}
                  => ~ \E c \in calls : c.run = r

\* C5 witness: one run failed at normalization and one at decode
C5_Witness ==
    \E r, q \in RunIds :
        runs[r].failed = "normalize" /\ runs[q].failed = "decode"

ErrorKinds == {"Inference Error", "Pick Error", "Capture Error"}
ReportKinds == {"FOUND", "No objects detected > 40%"}

\* C6: a run that logged an error line logged no FOUND line and no "No
\* objects detected" line.
C6_ErrorRunReportsNothing ==
    \A i \in LogIdx, j \in LogIdx :
        (logs[i].kind \in ErrorKinds /\ logs[i].run # 0 /\ logs[j].run = logs[i].run)
            => logs[j].kind \notin ReportKinds

\* C6 witness: a run ended in an error raised by an unusable output after
\* runSync had returned
C6_Witness ==
    \E i \in LogIdx : logs[i].kind = "Inference Error" /\ logs[i].arg = "post"

\* the error kind the taxonomy gives a failed stage
ExpectedKind(stage) ==
    CASE stage = "normalize" -> "Image Processing Error"
      [] stage = "decode" -> "Decode Error"
      [] OTHER -> "Inference Error"

\* C7: the error line of a run names the stage that failed: Image Processing
\* for normalization, Decode for decode, Inference for the detector call.
C7_ErrorNamesStage ==
    \A r \in RunIds :
        runs[r].failed \in {"normalize", "decode", "infer"} =>
            \E i \in LogIdx :
                logs[i].run = r /\ logs[i].kind = ExpectedKind(runs[r].failed)

\* the slots of the first K whose score is above the threshold
SlotsAbove(scores) ==
    {i \in 0..(NumSlots - 1) : i < Len(scores) /\ scores[i + 1] > 400}

DetSlots(dets) == {dets[n].slot : n \in 1..Len(dets)}

\* C8: a detection is emitted for slot i exactly when i is one of the first
\* 25 slots, the score tensor has the slot and its score is above 0.4.
C8_EmitsExactlyAbove ==
    (ppDone /\ ppInput.classes.defined /\ ppInput.scores.defined) =>
        /\ DetSlots(ppResult.dets) = SlotsAbove(ppInput.scores.data)
        /\ Len(ppResult.dets) = Cardinality(SlotsAbove(ppInput.scores.data))

\* C8 witness: slot 24 at 0.401 is emitted, slot 0 at exactly 0.4 and slot 25
\* at 0.91 are not
C8_Witness ==
    /\ ppDone
    /\ ppInput.classes.defined /\ ppInput.scores.defined
    /\ Len(ppInput.scores.data) > NumSlots
    /\ ppInput.scores.data[1] = 400
    /\ ppInput.scores.data[NumSlots] = 401
    /\ ppInput.scores.data[NumSlots + 1] = 910
    /\ DetSlots(ppResult.dets) = {NumSlots - 1}

\* C9 (as claimed): in the log shown to the user the detection of a lower
\* slot comes before the detection of a higher slot of the same run.
C9_LowerSlotFirstInLog ==
    \A i \in LogIdx, j \in LogIdx :
        (i < j /\ IsFound(i) /\ IsFound(j) /\ logs[i].run = logs[j].run)
            => logs[i].slot < logs[j].slot

\* C9 (amended): the detections of a run are logged in ascending slot order,
\* unsorted; the log being newest first, the detection of a higher slot
\* stands before the detection of a lower slot of the same run.
C9_LoggedInSlotOrder ==
    \A i \in LogIdx, j \in LogIdx :
        (i < j /\ IsFound(i) /\ IsFound(j) /\ logs[i].run = logs[j].run)
            => logs[i].slot > logs[j].slot

\* C9 witness: classes [2,5,0], scores [0.82,0.3,0.91]: person (91%) is the
\* newer line, car (82%) the older one
C9_Witness ==
    \E i \in LogIdx, j \in LogIdx :
        /\ i < j /\ logs[i].run = logs[j].run
        /\ IsFound(i) /\ logs[i].arg = "person" /\ logs[i].pct = 91
        /\ IsFound(j) /\ logs[j].arg = "car" /\ logs[j].pct = 82

\* the label the claim gives class index c
ClaimedLabel(c) ==
    CASE c = 0 -> "person" [] c = 1 -> "bicycle" [] c = 2 -> "car"
      [] c = 3 -> "motorcycle" [] c = 5 -> "bus" [] c = 7 -> "truck"
      [] c = 9 -> "traffic light" [] OTHER -> "Class " \o ToString(c)

\* C10: every emitted detection carries the table's label of its class index,
\* or "Class {index}" when the table has none, and post-processing does not
\* throw when both tensors are there, whatever the class indices.
C10_LabelOrSynthetic ==
    (ppDone /\ ppInput.classes.defined /\ ppInput.scores.defined) =>
        /\ ~ppResult.threw
        /\ \A n \in 1..Len(ppResult.dets) :
              LET d == ppResult.dets[n] IN
              d.slot < Len(ppInput.classes.data) =>
                  d.label = ClaimedLabel(ppInput.classes.data[d.slot + 1])

\* C10 witness: a detection of the unmapped class 42 labelled "Class 42"
\* beside a mapped one
C10_Witness ==
    /\ ppDone
    /\ \E n, m \in 1..Len(ppResult.dets) :
          /\ ppResult.dets[n].slot < Len(ppInput.classes.data)
          /\ ppInput.classes.data[ppResult.dets[n].slot + 1] = 42
          /\ ppResult.dets[n].label = "Class 42"
          /\ ppResult.dets[m].label = "car"

\* the line kinds run r has put on the log
RunLogged(r, kind) == \E i \in LogIdx : logs[i].run = r /\ logs[i].kind = kind

\* C11: a run whose detector call returned a score buffer logs "No objects
\* detected" exactly when none of the first 25 slots has a score above 0.4;
\* a run that logged it ended as empty, not as an error, and logged no error
\* line and no FOUND line.
C11_EmptyIffNoneAbove ==
    \A r \in RunIds :
        /\ (runs[r].pc = "done" /\ runs[r].scores.defined) =>
              (RunLogged(r, "No objects detected > 40%")
                  <=> SlotsAbove(runs[r].scores.data) = {})
        /\ RunLogged(r, "No objects detected > 40%") =>
              /\ runs[r].outcome = "empty"
              /\ \A k \in ErrorKinds \cup {"FOUND"} : ~RunLogged(r, k)

\* C11 witness: one run with its only score at exactly 0.4 logged the notice,
\* another run emitted a detection
C11_Witness ==
    \E r \in RunIds, q \in RunIds :
        /\ runs[r].scores = Tensor(<<400>>)
        /\ RunLogged(r, "No objects detected > 40%")
        /\ runs[q].outcome = "found" /\ RunLogged(q, "FOUND")

\* C12: for a decoded buffer of 4n samples the reduced buffer has 3n bytes.
C12_ReducedLength3n ==
    (rdDone /\ rdInput.len % 4 = 0) => rdResult.len = 3 * (rdInput.len \div 4)

\* the values in data that occur there once and are not 0
Marked(buf) ==
    {buf.data[i] : i \in {i \in 1..Len(buf.data) :
        buf.data[i] # 0 /\ \A j \in 1..Len(buf.data) : buf.data[j] = buf.data[i] => j = i}}

AlphaBytes(buf) == {ByteAt(buf, 4 * i + 3) : i \in 0..(Len(buf.data) \div 4)}
BytesIn(buf) == {buf.data[i] : i \in 1..Len(buf.data)}

\* C13: for a decoded buffer of 4n samples and every pixel i below n, output
\* bytes 3i, 3i+1, 3i+2 are there and are input bytes 4i, 4i+1, 4i+2, and no
\* alpha byte is in the output (looked for by the values that mark a byte).
C13_OrderPreservingDropsAlpha ==
    (rdDone /\ rdInput.len % 4 = 0) =>
        /\ \A i \in 0..((rdInput.len \div 4) - 1), c \in 0..2 :
              /\ 3 * i + c < rdResult.len
              /\ ByteAt(rdResult, 3 * i + c) = ByteAt(rdInput, 4 * i + c)
        /\ (AlphaBytes(rdInput) \cap Marked(rdInput)) \cap BytesIn(rdResult) = {}

\* C13 (as far as the buffer reaches): every byte of the reduced buffer below
\* 3n is the colour sample of its pixel, in order, the bytes from 3n on are 0
\* and no alpha byte is in the buffer.
C13_OrderPreservedWithinBuffer ==
    (rdDone /\ rdInput.len % 4 = 0) =>
        /\ \A j \in 0..(rdResult.len - 1) :
              ByteAt(rdResult, j) =
                  IF j < 3 * (rdInput.len \div 4)
                  THEN ByteAt(rdInput, 4 * (j \div 3) + (j % 3)) ELSE 0
        /\ (AlphaBytes(rdInput) \cap Marked(rdInput)) \cap BytesIn(rdResult) = {}

\* C13 witness (as far as the buffer reaches): two pixels with marked bytes
\* were reduced to six bytes
C13_WithinBufferWitness ==
    /\ rdDone
    /\ rdInput.len = 8
    /\ Cardinality(AlphaBytes(rdInput) \cap Marked(rdInput)) = 2
    /\ Len(rdResult.data) = 6

\* C14: a run whose decoded sample count is not a multiple of 4 failed at
\* decode and made no runSync call.
C14_OddSizeFailsFast ==
    \A r \in RunIds :
        (runs[r].pc = "done" /\ runs[r].decLen % 4 # 0) =>
            /\ runs[r].failed = "decode"
            /\ ~ \E c \in calls : c.run = r

\* C15: every runSync call, warm-up or inference, is given one buffer of
\* 320 * 320 * 3 = 307200 bytes.
C15_OneFlatBufferOfFixedLength ==
    \A c \in calls : c.inputs = 1 /\ c.bufLen = 307200

\* C15 witness: a warm-up call, and an inference call of a run whose decoded
\* image was not 320 x 320
C15_Witness ==
    /\ \E c \in calls : c.kind = "warmup"
    /\ \E c \in calls :
          /\ c.kind = "inference"
          /\ runs[c.run].decLen # 0
          /\ runs[c.run].decLen # 4 * 320 * 320

\* a step in which the acquisition of run r ends without an image
AcquisitionEmpty(r) ==
    runs[r].pc \in {"picking", "capturing"} /\ runs'[r].pc = "done"

\* C16: an acquisition that ends without an image (a cancelled picker, a
\* picker or camera call that fails) starts no stage and no runSync call and
\* leaves imageUri, processing and the log as they were.
C16_NoImageIsNoOp ==
    [][\A r \in RunIds :
          AcquisitionEmpty(r) =>
              /\ runs'[r].stages = runs[r].stages
              /\ UNCHANGED <<imageUri, processing, logs, calls>>]_vars

\* C16 (the cancelled picker alone): a pick the user cancels starts nothing
\* and changes neither imageUri, processing nor the log.
C16_CancelIsNoOp ==
    [][\A r \in RunIds :
          (AcquisitionEmpty(r) /\ runs'[r].outcome = "canceled") =>
              /\ runs'[r].stages = runs[r].stages
              /\ UNCHANGED <<imageUri, processing, logs, calls>>]_vars

NoDuplicates(q) == \A i \in 1..Len(q), j \in 1..Len(q) : q[i] = q[j] => i = j

\* C17: nothing is retried.  A run that has ended does nothing more and a
\* load that has settled stays as it settled; a run starts only in a step
\* that calls a handler, a load only in a step that changes modelUri; a run
\* enters each stage and calls runSync at most once, and a model is warmed
\* up at most once.
C17_NoAutomaticRetry ==
    [][/\ \A r \in RunIds :
             /\ runs[r].pc = "done" => runs'[r] = runs[r]
             /\ (runs[r].pc = "idle" /\ runs'[r].pc # "idle") => HandlerCalled
             /\ NoDuplicates(runs'[r].stages)
             /\ Cardinality({c \in calls' : c.run = r}) <= 1
       /\ \A k \in LoadIds :
             /\ loads[k].status \in {"resolved", "rejected"} => loads'[k] = loads[k]
             /\ (loads[k].status = "none" /\ loads'[k].status # "none")
                   => modelUri' # modelUri
             /\ Cardinality({c \in calls' : c.kind = "warmup" /\ c.model = k}) <= 1
      ]_vars

\* C17 witness: a run failed at normalization, and a later press ran the
\* pipeline again up to its detections
C17_Witness ==
    \E r \in RunIds, q \in RunIds :
        /\ r < q
        /\ runs[r].failed = "normalize"
        /\ runs[q].outcome = "found"

\* C18: once modelState is 'loaded' the model held is not replaced,
\* modelState stays 'loaded' and loadTensorflowModel is not called again.
C18_LoadedIsFinal ==
    [][modelState = "loaded" =>
          /\ model' = model
          /\ modelState' = "loaded"
          /\ \A k \in LoadIds : loads[k].status = "none" => loads'[k].status = "none"
      ]_vars

\* C19: once a model load has failed modelState stays 'error' and no run is
\* started.
C19_ErrorIsFinal ==
    [][modelState = "error" =>
          /\ modelState' = "error"
          /\ \A r \in RunIds : runs[r].pc = "idle" => runs'[r].pc = "idle"
      ]_vars

StageOrder ==
    <<"acquire", "normalize", "read", "decode", "reduce", "infer", "post">>

IsPrefix(p, q) == Len(p) <= Len(q) /\ \A i \in 1..Len(p) : p[i] = q[i]

\* C20: the stages a run has entered are an initial part of acquisition,
\* normalization, file read, decode, channel reduction, runSync,
\* post-processing; the stage it waits in is the last one it entered; and a
\* step only adds stages at the end of those entered before.
C20_StagesForwardOnce ==
    /\ [](\A r \in RunIds :
            /\ IsPrefix(runs[r].stages, StageOrder)
            /\ runs[r].pc \in {"picking", "capturing", "timer"}
                  => runs[r].stages = <<"acquire">>
            /\ runs[r].pc = "manip" => Last(runs[r].stages) = "normalize"
            /\ runs[r].pc = "read" => Last(runs[r].stages) = "read")
    /\ [][\A r \in RunIds :
             runs[r].pc # "idle" => IsPrefix(runs[r].stages, runs'[r].stages)]_vars

\* C20 witness: a run went through all seven stages
C20_Witness == \E r \in RunIds : runs[r].stages = StageOrder

\* the detections run r has on the log, oldest first: label, percentage, slot
FoundOf(r) ==
    LET T(l) == l.kind = "FOUND" /\ l.run = r
        f == SelectSeq(logs, T)
    IN [i \in 1..Len(f) |-> <<f[Len(f) + 1 - i].arg, f[Len(f) + 1 - i].pct,
                              f[Len(f) + 1 - i].slot>>]

\* a run whose runSync call returned
Returned(r) == runs[r].pc = "done" /\ "post" \in {runs[r].stages[i] : i \in 1..Len(runs[r].stages)}

IsSuffix(p, q) ==
    Len(p) <= Len(q) /\ \A i \in 1..Len(p) : p[i] = q[Len(q) - Len(p) + i]

LinesOf(r) == Cardinality({i \in LogIdx : logs[i].run = r})

\* C22: a step changes the log only by putting lines before the lines it
\* had; every addLog call of a task leaves its line: a run that came to its
\* result has its three progress lines, one line for each detection and the
\* notice if there is none, the older of them further down, and 'Warmup
\* complete.' stands right above 'Model loaded! Warming up...'.
C22_AppendAtHead ==
    /\ [][IsSuffix(logs, logs')]_vars
    /\ [](\A r \in RunIds :
            runs[r].outcome \in {"found", "empty"} =>
                /\ LinesOf(r) = 3 + Cardinality(SlotsAbove(runs[r].scores.data))
                                  + (IF runs[r].outcome = "empty" THEN 1 ELSE 0)
                /\ \A i \in LogIdx, j \in LogIdx :
                      (logs[i].run = r /\ logs[j].run = r
                         /\ logs[i].kind \in ReportKinds
                         /\ logs[j].kind \notin ReportKinds) => i < j)
    /\ [](\A i \in LogIdx :
            logs[i].kind = "Warmup complete." =>
                (i < Len(logs) /\ logs[i + 1].kind = "Model loaded! Warming up..."))

\* C22 witness: a warmed-up model, and a run that logged two detections in
\* the task that ended it
C22_Witness ==
    /\ \E i \in LogIdx : logs[i].kind = "Warmup complete."
    /\ \E r \in RunIds : runs[r].outcome = "found" /\ LinesOf(r) = 5

\* C23: while the normalization, the file read, the decode or the detector
\* call of a run is under way, processing is true.
C23_BusyWhileRunning ==
    \A r \in RunIds : runs[r].pc \in {"manip", "read"} => processing

\* C24: modelState 'loaded' implies a model is held, and the model held is
\* one whose loadTensorflowModel call resolved.
C24_LoadedHoldsResolvedModel ==
    /\ modelState = "loaded" => model # NoModel
    /\ model # NoModel => (model \in LoadIds /\ loads[model].status = "resolved")

\* C24 witness: a model is held from the first load while the load for a new
\* URI has failed
C24_Witness ==
    /\ model = 1
    /\ modelState = "error"
    /\ loads[2].status = "rejected"

\* a step in which load k resolves
Resolves(k) == loads[k].status = "pending" /\ loads'[k].status = "resolved"

\* C25: the task in which a load resolves stores the model, sets modelState
\* to 'loaded' and logs 'Model loaded! Warming up...' and, only when the
\* warm-up returned, 'Warmup complete.': nothing else, no error line.
C25_WarmupFailureIsSilent ==
    [][\A k \in LoadIds :
          Resolves(k) =>
              /\ model' = k
              /\ modelState' = "loaded"
              /\ \/ logs' = <<Line("Model loaded! Warming up...", "", 0, 0)>> \o logs
                 \/ logs' = <<Line("Warmup complete.", "", 0, 0),
                              Line("Model loaded! Warming up...", "", 0, 0)>> \o logs
      ]_vars

\* C25 witness: the model is loaded and the newest line is 'Model loaded!
\* Warming up...': the warm-up threw
C25_Witness ==
    /\ modelState = "loaded"
    /\ model # NoModel
    /\ Len(logs) > 0
    /\ Head(logs).kind = "Model loaded! Warming up..."

\* the load for the latest modelUri
LatestLoad == Cardinality(StartedLoads)

\* C26: when all loads have settled, model and modelState are those of the
\* load for the latest modelUri: its model and 'loaded' if it resolved,
\* 'error' if it was rejected.  (Loads that did not overlap settle in the
\* order they were started, so only overlapping loads can break this.)
C26_LatestLoadWins ==
    (LatestLoad >= 2 /\ \A k \in StartedLoads : loads[k].status # "pending") =>
        IF loads[LatestLoad].status = "resolved"
        THEN model = LatestLoad /\ modelState = "loaded"
        ELSE modelState = "error"

\* C27: the Leaflet readiness poll terminates: the interval is cleared by
\* the tick that finds window.L or by the 50th tick, whichever comes first,
\* and by the unmount, so that it never ticks more than 50 times and is
\* eventually cleared; scriptsLoaded turns true only in a tick, among those
\* 50, that found window.L, and nothing changes it once the interval is
\* cleared.
C27_PollTerminates ==
    /\ [](attempts <= maxAttempts)
    /\ [](checkScripts = "set" =>
            attempts < maxAttempts /\ ~scriptsLoaded /\ mounted = "mounted")
    /\ [](scriptsLoaded => windowL /\ checkScripts = "cleared")
    /\ [][/\ (checkScripts = "set" /\ attempts' # attempts /\ windowL)
                => (checkScripts' = "cleared" /\ scriptsLoaded')
          /\ (checkScripts = "set" /\ mounted' = "unmounted")
                => checkScripts' = "cleared"
          /\ scriptsLoaded' # scriptsLoaded
                => (checkScripts = "set" /\ windowL /\ scriptsLoaded'
                    /\ attempts' = attempts + 1)
          /\ checkScripts = "cleared"
                => (checkScripts' = "cleared" /\ attempts' = attempts
                    /\ scriptsLoaded' = scriptsLoaded)]_vars
    /\ <>(checkScripts = "cleared")

\* C27 witness: the poll gave up at its 50th tick and window.L, defined
\* later, no longer turns scriptsLoaded true
C27_Witness ==
    /\ mounted = "mounted"
    /\ checkScripts = "cleared"
    /\ attempts = maxAttempts
    /\ windowL
    /\ ~scriptsLoaded

\* C28: after any sequence of handleViewDetails, handleCloseModal and
\* handleUpdateChallan calls the modal is open exactly when a challan is
\* selected, and every handleUpdateChallan leaves the modal closed with no
\* selection.
C28_OpenIffSelected ==
    /\ [](isModalOpen <=> selectedChallanId # NoChallan)
    /\ [][updates' # updates =>
            (~isModalOpen' /\ selectedChallanId' = NoChallan)]_vars

\* C28 witness: a challan is opened again after an update has closed the
\* modal
C28_Witness ==
    /\ updates > 0
    /\ isModalOpen
    /\ selectedChallanId \in ChallanIds

\* C29: the verified and refuted KPI values equal the numbers of VERIFIED
\* and REFUTED challans of the list after any sequence of
\* handleUpdateChallan calls, and pending_verification is never negative.
C29_KpisMatchChallans ==
    /\ {"verified_challans", "refuted_challans"} \subseteq DOMAIN kpis =>
        /\ kpis["verified_challans"] = CountOf(challans, "VERIFIED")
        /\ kpis["refuted_challans"] = CountOf(challans, "REFUTED")
    /\ "pending_verification" \in DOMAIN kpis =>
        kpis["pending_verification"] >= 0

\* C30: after any sequence of field edits and location-mode switches from
\* initialNewEventState, at most one of junction_id and route_id is
\* non-empty, and a non-empty one matches locationMode.
C30_OneIdMatchingMode ==
    /\ ~(newEvent.junction_id # "" /\ newEvent.route_id # "")
    /\ newEvent.junction_id # "" => newEvent.locationMode = "junction"
    /\ newEvent.route_id # "" => newEvent.locationMode = "route"

\* C30 witness: the form went to 'route' mode, a route id was typed, and
\* no junction id is left
C30_Witness ==
    /\ newEvent.locationMode = "route"
    /\ newEvent.route_id # ""
    /\ newEvent.junction_id = ""
    /\ newEvent.id # ""

====
